---- MODULE Spec2Model ----
(***************************************************************************)
(* decoupler.decouple: the dispatcher that runs the selected activity      *)
(* inference methods one after another, merges their named result tables, *)
(* optionally runs the consensus aggregator, and returns the result set    *)
(* or attaches it to the AnnData object's obsm slot.                       *)
(*                                                                         *)
(* Python dicts are functions with string domains, lists are sequences.    *)
(* One call of decouple is executed in steps (entry, one step per loop     *)
(* iteration, the consensus step, the final return / write-back) so that   *)
(* the order of the invocations can be observed.                           *)
(***************************************************************************)
EXTENDS Integers, Sequences, FiniteSets, TLC

\* ------------------------------------------------------------------ bounds
\* longest methods list of a single call
MaxLen == 2
\* longest methods list in a sequence of calls
MaxSeqLen == 1

\* ------------------------------------------------------------- dict helpers
EmptyMap == [k \in {} |-> 0]

\* d[k] = v on a dict
Put(d, k, v) == [x \in (DOMAIN d) \cup {k} |-> IF x = k THEN v ELSE d[x]]

\* all lists over S of length at most n
ListsUpTo(S, n) == UNION {[1..k -> S] : k \in 0..n}

\* --------------------------------------------------------------- the registry
\* methods_dict: method name -> scoring function
methods_dict ==
  [m \in {"wmean", "wsum", "ulm", "mlm", "ora"} |->
     CASE m = "wmean" -> "run_wmean"
       [] m = "wsum"  -> "run_wsum"
       [] m = "ulm"   -> "run_ulm"
       [] m = "mlm"   -> "run_mlm"
       [] m = "ora"   -> "run_ora"]

\* the callables decouple can invoke
Callables == {methods_dict[m] : m \in DOMAIN methods_dict} \cup {"run_consensus"}

\* ------------------------------------------------------ inputs of the model
\* names a caller may put in methods: two registry names, two unknown ones
MethodPool == {"wmean", "ulm", "bad_method", "nope"}
SeqMethodPool == {"wmean", "ulm"}
MatForms == {"pair", "table", "anndata"}
MinNs == {3, 5}
\* (min_n, verbose) of the calls of a sequence
SeqParams == {<<5, TRUE>>, <<3, FALSE>>}

\* table names the external functions give their result tables:
\* without and with names shared between functions
DistinctNames ==
  [f \in Callables |->
     CASE f = "run_wmean"     -> <<"wmean_estimate", "wmean_pvals">>
       [] f = "run_wsum"      -> <<"wsum_estimate", "wsum_pvals">>
       [] f = "run_ulm"       -> <<"ulm_estimate", "ulm_pvals">>
       [] f = "run_mlm"       -> <<"mlm_estimate", "mlm_pvals">>
       [] f = "run_ora"       -> <<"ora_estimate", "ora_pvals">>
       [] f = "run_consensus" -> <<"consensus_estimate", "consensus_pvals">>]

SharedNames ==
  [f \in Callables |->
     CASE f = "run_wmean"     -> <<"estimate", "wmean_pvals">>
       [] f = "run_wsum"      -> <<"estimate", "wsum_pvals">>
       [] f = "run_ulm"       -> <<"estimate", "pvals", "estimate">>
       [] f = "run_mlm"       -> <<"estimate", "mlm_pvals">>
       [] f = "run_ora"       -> <<"estimate", "ora_pvals">>
       [] f = "run_consensus" -> <<"consensus_estimate", "pvals">>]

Namings == {DistinctNames, SharedNames}

\* the args dicts a caller may hold when it calls
ArgsPool ==
  { EmptyMap,
    [m \in {"wmean"} |-> [k \in {"times"} |-> 100]],
    [m \in {"wmean", "ulm"} |->
       IF m = "wmean"
       THEN [k \in {"times", "min_n", "verbose"} |->
               CASE k = "times" -> 100 [] k = "min_n" -> 0 [] k = "verbose" -> FALSE]
       ELSE EmptyMap],
    [m \in {"ulm", "bad_method"} |->
       IF m = "ulm"
       THEN [k \in {"min_n", "verbose"} |->
               CASE k = "min_n" -> 5 [] k = "verbose" -> TRUE]
       ELSE [k \in {"times"} |-> 1]] }

\* what an AnnData object may already hold in obsm
StaleObsm ==
  [n \in {"X_pca", "ulm_estimate", "estimate"} |->
     [name |-> n, by |-> "earlier", part |-> 0, kw |-> EmptyMap, from |-> EmptyMap]]

\* ------------------------------------------------------------------- state
VARIABLES
  args,      \* the caller's args dict (name -> dict of keyword overrides)
  dflt,      \* the default value of the args parameter, one object for all calls
  obsm,      \* the AnnData object's obsm mapping
  produces,  \* the table names each external function gives its tables
  failing,   \* the external functions that raise on this data
  pc,        \* "idle", "loop", "consensus", "finish", "done"
  cur,       \* the parameters of the call in progress
  tmp,       \* local tmp: the normalised matrix
  i,         \* position of the for loop in methods
  results,   \* local results dict
  outcome,   \* how the call ended: returned value or raised exception
  log,       \* the invocations of external functions made by the call, in order
  args0,     \* the args object bound to the call, as it was when the call began
  obsm0,     \* obsm as it was when the call began
  supplied,  \* the args dict as the caller first built it
  prev       \* the previous call: its parameters, invocations and outcome

vars == <<args, dflt, obsm, produces, failing, pc, cur, tmp, i, results,
          outcome, log, args0, obsm0, supplied, prev>>

NoCall == [methods |-> <<>>, mat |-> "table", omitted |-> TRUE,
           consensus |-> FALSE, min_n |-> 5, verbose |-> TRUE]
Running == [kind |-> "running", what |-> "", value |-> EmptyMap]
NoPrev == [call |-> NoCall, log |-> <<>>, outcome |-> Running]

\* ------------------------------------------------------ external functions
\* a scoring function's return value: its named tables, computed from the
\* keyword arguments it was given
Tables(f, kw) ==
  [j \in 1..Len(produces[f]) |->
     [name |-> produces[f][j], by |-> f, part |-> j, kw |-> kw, from |-> EmptyMap]]

\* run_consensus(results): its named tables, computed from the result set
ConsensusTables(res) ==
  [j \in 1..Len(produces["run_consensus"]) |->
     [name |-> produces["run_consensus"][j], by |-> "run_consensus", part |-> j,
      kw |-> EmptyMap, from |-> res]]

\* ------------------------------------------------------- pieces of decouple
\* tmp = mat, or the DataFrame built from an AnnData
Normalize(mat) == IF mat = "anndata" THEN "table" ELSE mat

\* if methd not in args: a = {} else: a = args[methd]
LookupArgs(A, methd) == IF methd \notin DOMAIN A THEN EmptyMap ELSE A[methd]

\* variant: a.setdefault('min_n', min_n); a.setdefault('verbose', verbose)
OverwriteKeep(a, min_n, verbose) ==
  [key \in (DOMAIN a) \cup {"min_n", "verbose"} |->
     IF key \in DOMAIN a THEN a[key]
     ELSE IF key = "min_n" THEN min_n ELSE verbose]

\* variant: a = {'min_n': min_n, 'verbose': verbose}
OverwriteFresh(a, min_n, verbose) ==
  [key \in {"min_n", "verbose"} |-> IF key = "min_n" THEN min_n ELSE verbose]

\* a['min_n'] = min_n; a['verbose'] = verbose
Overwrite(a, min_n, verbose) == Put(Put(a, "min_n", min_n), "verbose", verbose)

\* variant: a = dict(args[methd]), a copy that leaves args alone
ArgsAfterCopy(A, methd, a) == A

\* variant: a = args.pop(methd)
ArgsAfterPop(A, methd, a) == [x \in (DOMAIN A) \ {methd} |-> A[x]]

\* variant: a = args.setdefault(methd, {})
ArgsAfterStore(A, methd, a) == Put(A, methd, a)

\* the args dict after a was written: a is args[methd] itself when methd has
\* an entry, and a fresh dict that is stored nowhere when it has none
ArgsAfter(A, methd, a) ==
  IF methd \in DOMAIN A THEN [A EXCEPT ![methd] = a] ELSE A

\* variant: results.setdefault(r.name, r)
RECURSIVE StoreFirst(_, _)
StoreFirst(R, res) ==
  IF res = <<>> THEN R
  ELSE StoreFirst(IF Head(res).name \in DOMAIN R THEN R ELSE Put(R, Head(res).name, Head(res)),
                  Tail(res))

\* for r in res: results[r.name] = r
RECURSIVE Store(_, _)
Store(R, res) ==
  IF res = <<>> THEN R
  ELSE Store(Put(R, Head(res).name, Head(res)), Tail(res))

\* variant: mat.obsm.setdefault(r, results[r])
AttachNew(O, R) == [n \in (DOMAIN O) \cup (DOMAIN R) |-> IF n \in DOMAIN O THEN O[n] ELSE R[n]]

\* for r in results: mat.obsm[r] = results[r]
Attach(O, R) == [n \in (DOMAIN O) \cup (DOMAIN R) |-> IF n \in DOMAIN R THEN R[n] ELSE O[n]]

\* variant: the message does not name the method
UnknownMethodUnnamed(methd) == [kind |-> "ValueError", what |-> "", value |-> EmptyMap]

\* raise ValueError('Method {0} not available, ...'.format(methd))
UnknownMethod(methd) == [kind |-> "ValueError", what |-> methd, value |-> EmptyMap]

\* an exception of an external function leaves decouple as it is
Propagated(f) == [kind |-> "propagated", what |-> f, value |-> EmptyMap]

\* variant: for methd in reversed(methods)
VisitBackwards(ms, j) == ms[Len(ms) + 1 - j]

\* the element of methods the for loop visits at its j-th iteration
Visit(ms, j) == ms[j]

\* the argument given to run_consensus
ConsensusArg(R) == R

\* the args object of the call: the caller's, or the shared default
Bound == IF cur.omitted THEN dflt ELSE args

\* ------------------------------------------------------------------ actions
Init ==
  /\ args \in ArgsPool
  /\ supplied = args
  /\ dflt = EmptyMap
  /\ obsm = StaleObsm
  /\ produces \in Namings
  /\ failing \in SUBSET {"run_ulm", "run_consensus"}
  /\ pc = "idle"
  /\ cur = NoCall
  /\ tmp = "table"
  /\ i = 1
  /\ results = EmptyMap
  /\ outcome = Running
  /\ log = <<>>
  /\ args0 = EmptyMap
  /\ obsm0 = obsm
  /\ prev = NoPrev

\* entry of decouple: parameters bound, tmp and results initialised
Enter(ms, mat, omitted, consensus, min_n, verbose) ==
  /\ pc \in {"idle", "done"}
  /\ cur' = [methods |-> ms, mat |-> mat, omitted |-> omitted,
             consensus |-> consensus, min_n |-> min_n, verbose |-> verbose]
  /\ tmp' = Normalize(mat)
  /\ results' = EmptyMap
  /\ i' = 1
  /\ pc' = IF ms = <<>> THEN "consensus" ELSE "loop"
  /\ outcome' = Running
  /\ log' = <<>>
  /\ args0' = IF omitted THEN dflt ELSE args
  /\ obsm0' = obsm
  /\ prev' = IF pc = "done"
             THEN [call |-> cur, log |-> log, outcome |-> outcome]
             ELSE prev
  /\ UNCHANGED <<args, dflt, obsm, produces, failing, supplied>>

\* a single call with any parameters
Call ==
  /\ pc = "idle"
  /\ \E ms \in ListsUpTo(MethodPool, MaxLen), mat \in MatForms,
        omitted \in BOOLEAN, consensus \in BOOLEAN,
        min_n \in MinNs, verbose \in BOOLEAN :
       Enter(ms, mat, omitted, consensus, min_n, verbose)

\* one iteration of "for methd in methods"
LoopStep ==
  /\ pc = "loop"
  /\ LET methd == Visit(cur.methods, i) IN
       IF methd \in DOMAIN methods_dict
       THEN LET a == Overwrite(LookupArgs(Bound, methd), cur.min_n, cur.verbose)
                f == methods_dict[methd]
            IN /\ IF cur.omitted
                  THEN dflt' = ArgsAfter(dflt, methd, a) /\ args' = args
                  ELSE args' = ArgsAfter(args, methd, a) /\ dflt' = dflt
               /\ log' = Append(log, [f |-> f, mat |-> tmp, kw |-> a, acc |-> EmptyMap])
               /\ IF f \in failing
                  THEN /\ outcome' = Propagated(f)
                       /\ pc' = "done"
                       /\ UNCHANGED <<results, i>>
                  ELSE /\ results' = Store(results, Tables(f, a))
                       /\ i' = i + 1
                       /\ pc' = IF i = Len(cur.methods) THEN "consensus" ELSE "loop"
                       /\ outcome' = outcome
       ELSE /\ outcome' = UnknownMethod(methd)
            /\ pc' = "done"
            /\ UNCHANGED <<args, dflt, log, results, i>>
  /\ UNCHANGED <<obsm, produces, failing, cur, tmp, args0, obsm0, supplied, prev>>

\* "if consensus: res = run_consensus(results); store"
ConsensusStep ==
  /\ pc = "consensus"
  /\ IF cur.consensus
     THEN /\ log' = Append(log, [f |-> "run_consensus", mat |-> tmp, kw |-> EmptyMap,
                                 acc |-> ConsensusArg(results)])
          /\ IF "run_consensus" \in failing
             THEN /\ outcome' = Propagated("run_consensus")
                  /\ pc' = "done"
                  /\ results' = results
             ELSE /\ results' = Store(results, ConsensusTables(ConsensusArg(results)))
                  /\ pc' = "finish"
                  /\ outcome' = outcome
     ELSE /\ pc' = "finish"
          /\ UNCHANGED <<log, results, outcome>>
  /\ UNCHANGED <<args, dflt, obsm, produces, failing, cur, tmp, i, args0, obsm0,
                 supplied, prev>>

\* "if isinstance(mat, AnnData): write obsm  else: return results"
Finish ==
  /\ pc = "finish"
  /\ IF cur.mat = "anndata"
     THEN /\ obsm' = Attach(obsm, results)
          /\ outcome' = [kind |-> "none", what |-> "", value |-> EmptyMap]
     ELSE /\ obsm' = obsm
          /\ outcome' = [kind |-> "returned", what |-> "", value |-> results]
  /\ pc' = "done"
  /\ UNCHANGED <<args, dflt, produces, failing, cur, tmp, i, results, log, args0,
                 obsm0, supplied, prev>>

Next == Call \/ LoopStep \/ ConsensusStep \/ Finish

Spec == Init /\ [][Next]_vars

\* any number of calls, one after the other, by a caller that keeps passing
\* the same args dict or omits args
CallAgain ==
  \E ms \in ListsUpTo(SeqMethodPool, MaxSeqLen), omitted \in BOOLEAN,
     consensus \in BOOLEAN, p \in SeqParams :
    Enter(ms, "table", omitted, consensus, p[1], p[2])

NextSeq == CallAgain \/ LoopStep \/ ConsensusStep \/ Finish

InitSeq == Init /\ produces = DistinctNames /\ "run_consensus" \notin failing

SpecSeq == InitSeq /\ [][NextSeq]_vars

\* ------------------------------------------------------- reading a call
Ended == pc = "done"
Returned == Ended /\ outcome.kind = "returned"
Succeeded == Ended /\ outcome.kind \in {"returned", "none"}
Failed == Ended /\ outcome.kind \in {"ValueError", "propagated"}

Range(s) == {s[j] : j \in DOMAIN s}
ForcedKeys == {"min_n", "verbose"}

\* the positions of the names of methods that are not in the registry
UnknownAt == {j \in DOMAIN cur.methods : cur.methods[j] \notin DOMAIN methods_dict}
FirstUnknown == CHOOSE j \in UnknownAt : \A k \in UnknownAt : j <= k

\* the invocations of scoring methods in the log (run_consensus can only be last)
ConsensusLogged == log # <<>> /\ log[Len(log)].f = "run_consensus"
NumMethodCalls == IF ConsensusLogged THEN Len(log) - 1 ELSE Len(log)

\* the registry methods the loop reached: their scoring function was called
Reached == {m \in DOMAIN methods_dict : \E k \in DOMAIN log : log[k].f = methods_dict[m]}

\* the tables the first n invocations of the log returned, one after the other
RECURSIVE Returned_(_)
Returned_(n) ==
  IF n = 0 THEN <<>>
  ELSE Returned_(n - 1) \o
       (IF log[n].f \in failing THEN <<>>
        ELSE IF log[n].f = "run_consensus" THEN ConsensusTables(log[n].acc)
        ELSE Tables(log[n].f, log[n].kw))

\* the mapping in which each name has the last table of ts with that name
LastWins(ts) ==
  [n \in {ts[j].name : j \in DOMAIN ts} |->
     ts[CHOOSE j \in DOMAIN ts :
          ts[j].name = n /\ \A k \in DOMAIN ts : ts[k].name = n => k <= j]]

\* the names the tables of function f have
NamesOf(f) == Range(produces[f])

\* ------------------------------------------------------------------ claims

\* C1: a call on a plain table or pair with registry methods only returns a
\* mapping whose keys are the table names of the selected methods, plus those
\* of the consensus when consensus is true, each key holding the table that
\* was inserted last (methods in list order, then the consensus).
C1_ResultSet ==
  (Returned /\ cur.mat # "anndata" /\ UnknownAt = {}) =>
     /\ DOMAIN outcome.value =
          UNION {NamesOf(methods_dict[m]) : m \in Range(cur.methods)}
          \cup (IF cur.consensus THEN NamesOf("run_consensus") ELSE {})
     /\ outcome.value = LastWins(Returned_(Len(log)))
     /\ Len(log) = Len(cur.methods) + (IF cur.consensus THEN 1 ELSE 0)

C1_Witness ==
  /\ Returned /\ cur.mat = "pair" /\ cur.consensus
  /\ produces = SharedNames
  /\ cur.methods = <<"ulm", "wmean">>
  /\ outcome.value["estimate"].by = "run_wmean"
  /\ outcome.value["pvals"].by = "run_consensus"

\* C2 as stated: a methods list with a name outside the registry always ends
\* with the ValueError that names the first such name.
C2_AlwaysUnknownMethod ==
  (Ended /\ UnknownAt # {}) =>
     (outcome.kind = "ValueError" /\ outcome.what = cur.methods[FirstUnknown])

\* C2 amended: such a call never returns; it ends with the ValueError naming
\* the first unknown name, unless the call of a registry method listed before
\* that name fails, and then with that call's own exception.
C2_NeverReturns ==
  (Ended /\ UnknownAt # {}) =>
     LET u == FirstUnknown
         early == {j \in 1..(u - 1) : methods_dict[cur.methods[j]] \in failing}
     IN /\ ~Succeeded
        /\ outcome.value = EmptyMap
        /\ IF early = {}
           THEN outcome.kind = "ValueError" /\ outcome.what = cur.methods[u]
           ELSE /\ outcome.kind = "propagated"
                /\ \E j \in early : /\ \A k \in early : j <= k
                                    /\ outcome.what = methods_dict[cur.methods[j]]

C2_Witness ==
  /\ Ended /\ cur.methods = <<"nope", "bad_method">> /\ cur.mat = "anndata"
  /\ outcome.kind = "ValueError" /\ outcome.what = "nope"

\* C3: every scoring method is given min_n and verbose of the call, whatever
\* the caller had under these keys; every other key of the caller's overrides
\* is passed as it is, and a method without overrides gets these two only.
C3_ForcedOverrides ==
  \A k \in 1..NumMethodCalls :
     LET m == cur.methods[k]
         given == IF m \in DOMAIN args0 THEN args0[m] ELSE EmptyMap
         kw == log[k].kw
     IN /\ DOMAIN kw = (DOMAIN given) \cup ForcedKeys
        /\ kw["min_n"] = cur.min_n
        /\ kw["verbose"] = cur.verbose
        /\ \A key \in (DOMAIN given) \ ForcedKeys : kw[key] = given[key]

C3_Witness ==
  /\ Ended /\ ~cur.omitted /\ cur.methods = <<"ulm", "wmean">>
  /\ Len(log) >= 2
  /\ "wmean" \in DOMAIN args0 /\ DOMAIN args0["wmean"] = {"times", "min_n", "verbose"}
  /\ args0["wmean"]["min_n"] # cur.min_n
  /\ args0["wmean"]["verbose"] # cur.verbose
  /\ log[2].kw["times"] = 100 /\ log[2].kw["min_n"] = cur.min_n

C5_NoPartialSuccess ==
  Failed =>
     /\ outcome.value = EmptyMap
     /\ obsm = obsm0
     /\ \A m \in Reached \cap DOMAIN args0 :
           /\ m \in DOMAIN Bound
           /\ ForcedKeys \subseteq DOMAIN Bound[m]
           /\ Bound[m]["min_n"] = cur.min_n
           /\ Bound[m]["verbose"] = cur.verbose

C5_Witness ==
  /\ Failed /\ outcome = Propagated("run_ulm")
  /\ cur.methods = <<"wmean", "ulm">> /\ cur.mat = "anndata" /\ ~cur.omitted
  /\ results # EmptyMap
  /\ "ulm" \in DOMAIN args0 /\ "min_n" \in DOMAIN args0["ulm"]
  /\ args0["ulm"]["min_n"] # cur.min_n
  /\ args["ulm"]["min_n"] = cur.min_n

\* C6: the scoring methods are invoked one after another in list order, once
\* per occurrence, none after the first unknown name or after a failing one;
\* run_consensus is invoked at most once, only when consensus is true, only
\* after every listed method ran and was stored, with the whole accumulated
\* result set; obsm is written only after the consensus step.
C6_Order ==
  /\ NumMethodCalls <= Len(cur.methods)
  /\ pc = "loop" => Len(log) = i - 1
  /\ \A k \in 1..NumMethodCalls :
        /\ cur.methods[k] \in DOMAIN methods_dict
        /\ log[k].f = methods_dict[cur.methods[k]]
  /\ \A k \in 1..(Len(log) - 1) : log[k].f \notin failing
  /\ ConsensusLogged =>
        /\ cur.consensus
        /\ NumMethodCalls = Len(cur.methods)
        /\ log[Len(log)].acc = LastWins(Returned_(Len(log) - 1))
  /\ pc \in {"loop", "consensus"} => ~ConsensusLogged
  /\ Succeeded => NumMethodCalls = Len(cur.methods) /\ (cur.consensus <=> ConsensusLogged)
  /\ obsm # obsm0 =>
        /\ Succeeded
        /\ cur.consensus => ConsensusLogged

C6_Witness ==
  /\ Succeeded /\ cur.mat = "anndata" /\ obsm # obsm0
  /\ cur.methods = <<"ulm", "wmean">>
  /\ Len(log) = 3
  /\ log[1].f = "run_ulm" /\ log[2].f = "run_wmean" /\ log[3].f = "run_consensus"
  /\ DOMAIN log[3].acc = NamesOf("run_ulm") \cup NamesOf("run_wmean")

\* C7 as stated: after a call on a table or pair every object the caller
\* passed in, args and its sub-mappings included, is as it was before.
C7_NothingTouched ==
  (Ended /\ cur.mat # "anndata") => (Bound = args0 /\ obsm = obsm0)

\* C7 amended: after a call on a table or pair obsm is as it was, args has
\* the keys it had, and each of its sub-mappings differs from what it was at
\* most in its keys min_n and verbose.
C7_OnlyForcedKeysTouched ==
  (Ended /\ cur.mat # "anndata") =>
     /\ obsm = obsm0
     /\ DOMAIN Bound = DOMAIN args0
     /\ \A m \in DOMAIN args0 :
           /\ (DOMAIN Bound[m]) \ ForcedKeys = (DOMAIN args0[m]) \ ForcedKeys
           /\ \A key \in (DOMAIN args0[m]) \ ForcedKeys : Bound[m][key] = args0[m][key]

C7_Witness ==
  /\ Returned /\ cur.mat = "table" /\ ~cur.omitted
  /\ cur.methods = <<"wmean">>
  /\ "wmean" \in DOMAIN args0 /\ DOMAIN args0["wmean"] = {"times"}
  /\ DOMAIN args["wmean"] = {"times", "min_n", "verbose"}
  /\ args["wmean"]["times"] = 100

\* C10: args is changed only in the keys min_n and verbose of the entries of
\* the registry methods the loop reached; these two keys then hold the
\* parameters of the call; every other entry (of a name not in methods, of
\* an unknown name, of a method after the failing step) and the key set of
\* args are as they were.
C10_MutationConfined ==
  /\ DOMAIN Bound = DOMAIN args0
  /\ \A m \in DOMAIN args0 :
        IF m \in Reached
        THEN /\ DOMAIN Bound[m] = (DOMAIN args0[m]) \cup ForcedKeys
             /\ Bound[m]["min_n"] = cur.min_n
             /\ Bound[m]["verbose"] = cur.verbose
             /\ \A key \in (DOMAIN args0[m]) \ ForcedKeys : Bound[m][key] = args0[m][key]
        ELSE Bound[m] = args0[m]
  /\ IF cur.omitted THEN args = supplied ELSE dflt = EmptyMap

C10_Witness ==
  /\ Failed /\ outcome.kind = "ValueError" /\ ~cur.omitted
  /\ cur.methods = <<"bad_method", "ulm">>
  /\ "bad_method" \in DOMAIN args /\ "ulm" \in DOMAIN args
  /\ args0["ulm"]["min_n"] # cur.min_n
  /\ args = args0

\* a call was completed before the current one
HadPrev == prev.outcome.kind # "running"

\* C8: two calls in a row with the same mat, net, methods, args object, min_n
\* and verbose and consensus=False give every method the same keyword
\* arguments and end with the same result set, although the first call has
\* written min_n and verbose into args.
C8_Idempotent ==
  (Ended /\ HadPrev /\ prev.call = cur /\ ~cur.consensus) =>
     /\ log = prev.log
     /\ outcome = prev.outcome

C8_Witness ==
  /\ Returned /\ HadPrev /\ prev.call = cur /\ ~cur.consensus /\ ~cur.omitted
  /\ cur.methods = <<"wmean">>
  /\ "wmean" \in DOMAIN supplied /\ DOMAIN supplied["wmean"] = {"times"}
  /\ args # supplied
  /\ prev.outcome.kind = "returned"
  /\ DOMAIN outcome.value = NamesOf("run_wmean")

\* what a call's own arguments say method m is given: the overrides the
\* caller built for m, with min_n and verbose of this call
OwnKw(m) ==
  LET given == IF cur.omitted \/ m \notin DOMAIN supplied THEN EmptyMap ELSE supplied[m]
  IN [key \in (DOMAIN given) \cup ForcedKeys |->
        IF key = "min_n" THEN cur.min_n
        ELSE IF key = "verbose" THEN cur.verbose
        ELSE given[key]]

\* the tables the first n methods of the call return when given OwnKw
RECURSIVE OwnTables(_)
OwnTables(n) ==
  IF n = 0 THEN <<>>
  ELSE OwnTables(n - 1) \o Tables(methods_dict[cur.methods[n]], OwnKw(cur.methods[n]))

\* how the call ends according to its own arguments
OwnOutcome ==
  LET bad == {j \in DOMAIN cur.methods : methods_dict[cur.methods[j]] \in failing}
      acc == LastWins(OwnTables(Len(cur.methods)))
  IN IF bad # {}
     THEN Propagated(methods_dict[cur.methods[CHOOSE j \in bad : \A k \in bad : j <= k]])
     ELSE [kind |-> "returned", what |-> "",
           value |-> IF cur.consensus
                     THEN LastWins(OwnTables(Len(cur.methods)) \o ConsensusTables(acc))
                     ELSE acc]

\* C9: over any sequence of calls, what each scoring method is given and how
\* the call ends follow from the call's own arguments, whatever the earlier
\* calls were; the default args object is empty after every call.
C9_Stateless ==
  /\ dflt = EmptyMap
  /\ \A k \in 1..NumMethodCalls :
        /\ log[k].kw = OwnKw(cur.methods[k])
        /\ log[k].mat = Normalize(cur.mat)
  /\ Ended => outcome = OwnOutcome

C9_Witness ==
  /\ Returned /\ HadPrev /\ ~cur.omitted /\ ~prev.call.omitted
  /\ prev.call.min_n # cur.min_n /\ prev.call.verbose # cur.verbose
  /\ cur.methods = <<"wmean">> /\ prev.call.methods = <<"wmean">>
  /\ prev.outcome.kind = "returned"
  /\ "wmean" \in DOMAIN supplied /\ "min_n" \in DOMAIN supplied["wmean"]
  /\ log[1].kw["min_n"] = cur.min_n
  /\ prev.log[1].kw["min_n"] = prev.call.min_n

====
